---- MODULE Spec2Model ----
(***************************************************************************)
(* Model of the recertification engine (iac-recert-engine).                *)
(*                                                                         *)
(*   Spec       the orchestrator: Engine.Run / Engine.processGroup driving *)
(*              the provider gateway (GitLab and Azure DevOps backends)    *)
(*              over a remote branch / commit / pull-request store, for a  *)
(*              sequence of runs against the same repository.              *)
(*   CheckSpec  the staleness evaluator: Checker.Check applied to one      *)
(*              file of any age under one pattern with any threshold.      *)
(*   MatchSpec  the pattern matching of Checker.Check: one file under an   *)
(*              ordered list of patterns with include and exclude globs.   *)
(*   FindSpec   the same input given to FindMatchingPattern, the matcher   *)
(*              of the directory walk of Scanner.Scan.                     *)
(*   GroupSpec  the path from a scan to the branch names: Scanner.Scan and *)
(*              Checker.Check, Strategy.Group and Generator.Generate, for  *)
(*              repeated runs over the same repository.                    *)
(*   CapSpec    the same path under a configured max_files_per_pr.         *)
(*   EnrichSpec  one file from the scan through HistoryAnalyzer.Enrich and *)
(*              Checker.Check, checked a second time after the clock       *)
(*              has moved on.                                              *)
(*   ResolveSpec  the reviewer assignment: Resolver.Resolve applied to one *)
(*              group under any assignment configuration.                  *)
(*   CommitSpec  one call of Provider.CreateCommit on each backend,        *)
(*              request by request, with another writer pushing.           *)
(*   DecorSpec  the decorator of processGroup applied to the same file in  *)
(*              successive recertifications.                               *)
(***************************************************************************)
EXTENDS Integers, Sequences, FiniteSets, TLC

\* ---------------------------------------------------------------- bounds
NumGroups == 2       \* review units produced by grouping in every run
MaxRuns == 2         \* runs executed in sequence against the same backend
MaxFaults == 1       \* gateway calls answered with a transport/API failure
MaxThreshold == 5    \* largest recertification_days of a pattern
MaxElapsedDays == 8  \* oldest / youngest file, in days relative to now
NumPatterns == 2     \* patterns of the configuration, in order
NumFiles == 3        \* files of the repository that the scan finds
MaxPushes == 1       \* pushes of another writer during one CreateCommit

GroupIdx == 1..NumGroups

Providers == {"gitlab", "azure"}
Strategies == {"static", "plugin"}

VARIABLES
    \* --- configuration (cfg) and context
    provider,      \* cfg.Repository.Provider
    dryRun,        \* cfg.Global.DryRun of the current run
    strategy,      \* cfg.Assignment.Strategy
    names404,      \* the units whose branch name contains the text "404"
    cancelled,     \* ctx.Done() of the current run
    \* --- Engine.Run
    pc,            \* position of the run
    run,           \* number of runs started so far
    idx,           \* index of the unit being processed (range loop of Run)
    processed,     \* Run: processed counter
    failed,        \* Run: failed counter
    \* --- remote backend
    branches,      \* branches[g]: recert/<ID> branches created for unit g
    commits,       \* commits[g]: commits created on the unit's branch
    prs,           \* prs[g]: open pull requests for the unit's branch
    \* --- observation of the current run
    calls,         \* calls[g]: gateway calls issued for unit g, with answers
    stages,        \* stages[g]: pipeline stages performed for unit g
    result,        \* result[g]: "none" | "processed" | "failed"
    pre,           \* pre[g]: backend state of unit g when the unit started
    atStart,       \* backend state when the run started
    lateStart,     \* units started after the context was cancelled
    faults,        \* failures injected so far
    checkErr,      \* some existence check was answered with a failure
    \* --- Checker.Check
    now,           \* the clock read by time.Since, in hours
    file,          \* types.FileInfo: [LastModified |-> hours]
    patterns,      \* cfg.Patterns: sequence of config.Pattern
    checked,       \* Check has returned
    checkResult,   \* the types.RecertCheckResult of the file, or NoResult
    enriched,      \* Enrich has returned the file
    lookupErr,     \* GetLastModificationDate failed for the file
    rechecked,     \* Check has been executed a second time on the same input
    earlier,       \* what the first execution of Check returned
    found,         \* what FindMatchingPattern returned for the file
    \* --- scan, grouping and branch naming
    gpc,           \* position of the run: "idle" | "scanned" | "grouped"
    gRun,          \* number of runs started so far
    repoFiles,     \* the repository: per file, what enrichment and check find
    prStrategy,    \* cfg.PRStrategy.Type
    maxFilesPerPR, \* cfg.PRStrategy.MaxFilesPerPR, 0 when not configured
    scanDir,       \* the directory the scan of this run cloned into
    results,       \* []types.RecertCheckResult of this run
    groups,        \* []types.FileGroup of this run
    prConfigs,     \* the types.PRConfig generated for each group of this run
    prevUnits,     \* the groups and branch names of the run before
    \* --- Resolver.Resolve
    assignCfg,     \* config.AssignmentConfig
    pluginState,   \* what the plugin manager holds under cfg.PluginName
    fileGroup,     \* types.FileGroup: [Files |-> sequence of results]
    resolved,      \* [Assignees, Err] returned by Resolve, or NoResult
    \* --- Provider.CreateCommit
    cProvider,     \* the backend: "github" | "gitlab" | "azure"
    cStep,         \* the remote request CreateCommit issues next
    cChanges,      \* changes []types.Change, as the sequence of their paths
    onBranch,      \* paths that exist on the branch when the call starts
    branchLog,     \* commits added to the branch, by "self" or "other"
    refTip,        \* the tip CreateCommit read for the branch, -1 before
    blobs,         \* blobs created so far
    treeMade,      \* the tree was created
    commitMade,    \* the commit object was created
    submitted,     \* the actions / changes sent in the one request
    cRet,          \* what CreateCommit returned: "none" | "ok" | "err"
    \* --- decorator of processGroup
    decorator,     \* pattern.Decorator, a sequence of text pieces
    content,       \* content of the file, a sequence of text pieces
    stamp,         \* the second time.Now() last rendered, 0 before
    decorated      \* recertifications applied to the file so far

engineVars == <<provider, dryRun, strategy, names404, cancelled, pc, run, idx,
                processed, failed, branches, commits, prs, calls, stages,
                result, pre, atStart, lateStart, faults, checkErr>>
checkVars == <<now, file, patterns, checked, checkResult, enriched, lookupErr,
               rechecked, earlier, found>>
groupVars == <<gpc, gRun, repoFiles, prStrategy, maxFilesPerPR, scanDir,
               results, groups, prConfigs, prevUnits>>
resolveVars == <<assignCfg, pluginState, fileGroup, resolved>>
commitVars == <<cProvider, cStep, cChanges, onBranch, branchLog, refTip,
                blobs, treeMade, commitMade, submitted, cRet>>
decorVars == <<decorator, content, stamp, decorated>>
vars == <<engineVars, checkVars, groupVars, resolveVars, commitVars,
          decorVars>>

NoResult == [none |-> TRUE]

\* ------------------------------------------------------- staleness (Check)
\* Go's int(x) conversion of a float truncates toward zero.
TruncDiv(a, b) == IF a >= 0 THEN a \div b ELSE -((-a) \div b)

\* time.Since(t).Hours(), for instants given in whole hours: the clock is
\* read where the duration is taken.
\* The largest time.Duration (2^63 - 1 ns) in whole hours: time.Since
\* returns it for any instant further back.
MaxDurationHours == 2562047

\* The zero time.Time (1 January of year 1) on the hour scale of now.
ZeroTimeHour == -17750000

SinceHours(t) ==
    IF now - t > MaxDurationHours THEN MaxDurationHours ELSE now - t

DaysSince(f) == TruncDiv(SinceHours(f.LastModified), 24)

\* Variant: the threshold day itself is not yet stale.
NeedsRecert_Strict(daysSince, threshold) == daysSince > threshold

NeedsRecert(daysSince, threshold) == daysSince >= threshold

\* Variant: a ratio of exactly 1.5 is already critical.
Priority_CriticalAt(daysSince, threshold, needsRecert) ==
    IF needsRecert
    THEN IF 2 * daysSince >= 3 * threshold THEN "Critical"
         ELSE IF daysSince >= threshold THEN "High"
         ELSE IF 5 * daysSince >= 4 * threshold THEN "Medium"
         ELSE "Low"
    ELSE IF 5 * daysSince >= 4 * threshold THEN "Medium" ELSE "Low"

\* ratio := float64(daysSince) / float64(threshold), compared with 1.5, 1.0
\* and 0.8: on integers, ratio > 1.5 is 2*daysSince > 3*threshold, and
\* ratio >= 0.8 is 5*daysSince >= 4*threshold (threshold >= 1).
Priority(daysSince, threshold, needsRecert) ==
    IF needsRecert
    THEN IF 2 * daysSince > 3 * threshold THEN "Critical"
         ELSE IF daysSince >= threshold THEN "High"
         ELSE IF 5 * daysSince >= 4 * threshold THEN "Medium"
         ELSE "Low"
    ELSE IF 5 * daysSince >= 4 * threshold THEN "Medium" ELSE "Low"

\* doublestar.PathMatch(glob, relPath) on the path of the file under check.
\* A glob is given by what it does on that path: "hit" (matches), "miss"
\* (does not match) or "bad" (malformed: ErrBadPattern).
GlobOutcomes == {"hit", "miss", "bad"}

PathMatch(glob) == [m |-> glob = "hit", err |-> glob = "bad"]

\* The include loop of Check: some glob, in order, matches without error.
RECURSIVE Matched(_)
Matched(paths) ==
    IF paths = <<>> THEN FALSE
    ELSE LET r == PathMatch(Head(paths)) IN
         IF ~r.err /\ r.m THEN TRUE ELSE Matched(Tail(paths))

\* Variant: exclusions are never consulted.
Excluded_Never(exclude) == FALSE

\* The exclusion loop of Check.
RECURSIVE Excluded(_)
Excluded(exclude) ==
    IF exclude = <<>> THEN FALSE
    ELSE LET r == PathMatch(Head(exclude)) IN
         IF ~r.err /\ r.m THEN TRUE ELSE Excluded(Tail(exclude))

\* Variant: the loop does not stop at its first match, the last one stays.
RECURSIVE MatchedPattern_NoBreak(_, _)
MatchedPattern_NoBreak(ps, j) ==
    IF j > Len(ps) THEN 0
    ELSE LET later == MatchedPattern_NoBreak(ps, j + 1) IN
         IF later # 0 THEN later
         ELSE IF ps[j].Enabled /\ Matched(ps[j].Paths)
                   /\ ~Excluded(ps[j].Exclude)
              THEN j ELSE 0

\* The pattern loop of Check from index j on: the index of matchedPattern,
\* 0 for nil.
RECURSIVE MatchedPattern(_, _)
MatchedPattern(ps, j) ==
    IF j > Len(ps) THEN 0
    ELSE IF ~ps[j].Enabled THEN MatchedPattern(ps, j + 1)
    ELSE IF Matched(ps[j].Paths) /\ ~Excluded(ps[j].Exclude) THEN j
    ELSE MatchedPattern(ps, j + 1)

CheckStatus(f, p) ==
    LET daysSince == DaysSince(f)
        threshold == p.RecertificationDays
        needsRecert == NeedsRecert(daysSince, threshold)
    IN  [PatternName |-> p.Name,
         DaysSince |-> daysSince,
         Threshold |-> threshold,
         Priority |-> Priority(daysSince, threshold, needsRecert),
         NeedsRecert |-> needsRecert]

\* Checker.Check for one file: a file that matches no pattern is skipped.
\* MatchFilePattern, the include loop: the first glob that matches or is
\* malformed decides.
RECURSIVE IncludeMatch(_)
IncludeMatch(paths) ==
    IF paths = <<>> THEN [matched |-> FALSE, err |-> FALSE]
    ELSE LET r == PathMatch(Head(paths)) IN
         IF r.err THEN [matched |-> FALSE, err |-> TRUE]
         ELSE IF r.m THEN [matched |-> TRUE, err |-> FALSE]
         ELSE IncludeMatch(Tail(paths))

\* MatchFilePattern, the exclusion loop: TRUE when nothing excludes.
RECURSIVE ExcludeMatch(_)
ExcludeMatch(exclude) ==
    IF exclude = <<>> THEN [matched |-> TRUE, err |-> FALSE]
    ELSE LET r == PathMatch(Head(exclude)) IN
         IF r.err THEN [matched |-> FALSE, err |-> TRUE]
         ELSE IF r.m THEN [matched |-> FALSE, err |-> FALSE]
         ELSE ExcludeMatch(Tail(exclude))

MatchFilePattern(p) ==
    IF ~p.Enabled THEN [matched |-> FALSE, err |-> FALSE]
    ELSE LET inc == IncludeMatch(p.Paths) IN
         IF inc.err \/ ~inc.matched THEN inc ELSE ExcludeMatch(p.Exclude)

\* FindMatchingPattern from index i on: the index of the pattern returned
\* (0 for nil) and whether an error was returned.
RECURSIVE FindMatchingPattern(_, _)
FindMatchingPattern(ps, i) ==
    IF i > Len(ps) THEN [pattern |-> 0, err |-> FALSE]
    ELSE LET r == MatchFilePattern(ps[i]) IN
         IF r.err THEN [pattern |-> 0, err |-> TRUE]
         ELSE IF r.matched THEN [pattern |-> i, err |-> FALSE]
         ELSE FindMatchingPattern(ps, i + 1)

\* The walk of Scanner.Scan reaching the file.
FindPattern ==
    /\ found = NoResult
    /\ found' = FindMatchingPattern(patterns, 1)
    /\ UNCHANGED <<now, file, patterns, checked, checkResult, enriched,
                   lookupErr, rechecked, earlier>>
    /\ UNCHANGED <<engineVars, groupVars, resolveVars, commitVars,
                 decorVars>>

CheckFile(f, ps) ==
    LET j == MatchedPattern(ps, 1) IN
    IF j = 0 THEN NoResult ELSE CheckStatus(f, ps[j])

Check ==
    /\ enriched
    /\ ~checked
    /\ checked' = TRUE
    /\ checkResult' = CheckFile(file, patterns)
    /\ UNCHANGED <<now, file, patterns, enriched, lookupErr, rechecked,
                   earlier, found>>
    /\ UNCHANGED <<engineVars, groupVars, resolveVars, commitVars,
                 decorVars>>

\* Check executed once more with the same files and patterns.
Recheck ==
    /\ checked
    /\ ~rechecked
    /\ rechecked' = TRUE
    /\ earlier' = checkResult
    /\ checkResult' = CheckFile(file, patterns)
    /\ UNCHANGED <<now, file, patterns, checked, enriched, lookupErr, found>>
    /\ UNCHANGED <<engineVars, groupVars, resolveVars, commitVars,
                 decorVars>>

\* A day passes on the clock of the host.
Tick ==
    /\ now < 24 * (MaxElapsedDays + 1)
    /\ now' = now + 24
    /\ UNCHANGED <<file, patterns, checked, checkResult, enriched, lookupErr,
                   rechecked, earlier, found>>
    /\ UNCHANGED <<engineVars, groupVars, resolveVars, commitVars,
                 decorVars>>

\* HistoryAnalyzer.Enrich for one file: the time of the last commit, or,
\* when the lookup fails, the file as the scan left it.
Enrich ==
    /\ ~enriched
    /\ enriched' = TRUE
    /\ \/ /\ lookupErr' = TRUE
          /\ file' = file
       \/ /\ lookupErr' = FALSE
          /\ \E ts \in (now - 24 * MaxElapsedDays)..now :
                file' = [file EXCEPT !.LastModified = ts]
    /\ UNCHANGED <<now, patterns, checked, checkResult, rechecked, earlier,
                   found>>
    /\ UNCHANGED <<engineVars, groupVars, resolveVars, commitVars,
                 decorVars>>

\* An input of Check as Enrich returns it.
Enriched ==
    /\ enriched = TRUE
    /\ lookupErr = FALSE
    /\ rechecked = FALSE
    /\ earlier = NoResult
    /\ found = NoResult

\* A pattern the file matches.
Catching(days) ==
    [Name |-> 1, Enabled |-> TRUE, Paths |-> <<"hit">>, Exclude |-> <<>>,
     RecertificationDays |-> days]

InitChecker ==
    /\ now \in {0, 24 * MaxElapsedDays}
    /\ file \in [LastModified : (now - 24 * MaxElapsedDays)..(now + 48)]
    /\ patterns \in {<<Catching(d)>> : d \in 1..MaxThreshold}
    /\ checked = FALSE
    /\ checkResult = NoResult
    /\ Enriched

\* recertification_days has a minimum of 1 and no maximum.
LongThresholds == {106751, 106752}

\* A file as Scanner.Scan returns it: no modification time yet.
InitEnricher ==
    /\ now \in {0, 24 * MaxElapsedDays}
    /\ file = [LastModified |-> ZeroTimeHour]
    /\ patterns \in {<<Catching(d)>> : d \in {1, MaxThreshold} \cup LongThresholds}
    /\ checked = FALSE
    /\ checkResult = NoResult
    /\ enriched = FALSE
    /\ lookupErr = FALSE
    /\ rechecked = FALSE
    /\ earlier = NoResult
    /\ found = NoResult

IdleChecker ==
    /\ now = 0
    /\ file = [LastModified |-> 0]
    /\ patterns = <<Catching(1)>>
    /\ checked = FALSE
    /\ checkResult = NoResult
    /\ Enriched

\* The include and exclude lists a pattern is given.
IncludeLists ==
    {<<"hit">>, <<"miss">>, <<"bad">>, <<"miss", "hit">>, <<"bad", "hit">>}
ExcludeLists == {<<>>, <<"hit">>, <<"bad">>, <<"miss", "hit">>}

\* Pattern i of the configuration; its threshold and name tell it apart.
PatternsAt(i) ==
    [Name : {i}, Enabled : BOOLEAN, Paths : IncludeLists,
     Exclude : ExcludeLists, RecertificationDays : {i}]

InitMatcher ==
    /\ now = 48
    /\ file = [LastModified |-> 0]
    /\ patterns \in {ps \in [1..NumPatterns -> UNION {PatternsAt(i) : i \in 1..NumPatterns}] :
                        \A i \in 1..NumPatterns : ps[i] \in PatternsAt(i)}
    /\ checked = FALSE
    /\ checkResult = NoResult
    /\ Enriched

\* ---------------------------------------- scan, grouping, branch naming
\* The files of the repository, by their path relative to its root, in the
\* order the scan finds them.
RelPaths == 1..NumFiles

\* Directories os.MkdirTemp("", "iac-recert-scan-*") can return.
TempDirs == {"iac-recert-scan-1", "iac-recert-scan-2"}

PatternNames == {"p1", "p2"}
Authors == {"", "alice", "unknown"}
PRStrategies == {"per_file", "per_pattern", "per_committer", "single_pr"}

\* filepath.Join(tempDir, rel) and the matches of a glob below tempDir.
Join(dir, rel) == <<dir, rel>>

\* fmt.Sprintf(prefix + "%s", x).
Sprintf(prefix, x) == <<prefix, x>>

\* Scanner.Scan: every file is recorded under the directory of the clone.
ScannedFiles(dir) == [i \in RelPaths |-> [Path |-> Join(dir, i)]]

\* Enrich and Check on the scanned files: author, policy and verdict are
\* those of the repository file, the record keeps the scanned path.
CheckedFiles(files) ==
    [i \in DOMAIN files |->
        [File |-> [Path |-> files[i].Path,
                   CommitAuthor |-> repoFiles[i].author],
         PatternName |-> repoFiles[i].pattern,
         NeedsRecert |-> repoFiles[i].stale]]

\* Variant: the filter on NeedsRecert is missing.
NeedsGroup_All(res) == TRUE

NeedsGroup(res) == res.NeedsRecert

Stale(rs) == SelectSeq(rs, NeedsGroup)

RECURSIVE PerFileGroup(_)
PerFileGroup(rs) ==
    IF rs = <<>> THEN <<>>
    ELSE LET res == Head(rs) IN
         IF ~NeedsGroup(res) THEN PerFileGroup(Tail(rs))
         ELSE <<[ID |-> Sprintf("file-", res.File.Path),
                 Strategy |-> "per_file",
                 Files |-> <<res>>]>> \o PerFileGroup(Tail(rs))

\* Ranging over a Go map visits the keys in any order.
RangeOrders(keys) ==
    {o \in [1..Cardinality(keys) -> keys] :
        \A i, j \in DOMAIN o : i # j => o[i] # o[j]}

PatternKey(res) == res.PatternName

\* The map the strategy fills: for each key, the stale results with that
\* key in the order of the input.
PatternMap(rs) ==
    [k \in {PatternKey(Stale(rs)[i]) : i \in DOMAIN Stale(rs)} |->
        SelectSeq(Stale(rs), LAMBDA res : PatternKey(res) = k)]

PerPatternGroup(rs) ==
    LET m == PatternMap(rs) IN
    {[i \in DOMAIN o |-> [ID |-> Sprintf("pattern-", o[i]),
                          Strategy |-> "per_pattern",
                          Files |-> m[o[i]]]] : o \in RangeOrders(DOMAIN m)}

AuthorKey(res) ==
    IF res.File.CommitAuthor = "" THEN "unknown" ELSE res.File.CommitAuthor

AuthorMap(rs) ==
    [k \in {AuthorKey(Stale(rs)[i]) : i \in DOMAIN Stale(rs)} |->
        SelectSeq(Stale(rs), LAMBDA res : AuthorKey(res) = k)]

PerCommitterGroup(rs) ==
    LET m == AuthorMap(rs) IN
    {[i \in DOMAIN o |-> [ID |-> Sprintf("author-", o[i]),
                          Strategy |-> "per_committer",
                          Files |-> m[o[i]]]] : o \in RangeOrders(DOMAIN m)}

\* Variant: a unit is returned even when no file is stale.
SinglePRGroup_Always(rs) ==
    <<[ID |-> "all-files", Strategy |-> "single_pr", Files |-> Stale(rs)]>>

SinglePRGroup(rs) ==
    IF Stale(rs) = <<>> THEN <<>>
    ELSE <<[ID |-> "all-files", Strategy |-> "single_pr", Files |-> Stale(rs)]>>

\* The group lists Strategy.Group can return.
GroupOutcomes(strat, rs) ==
    CASE strat = "per_file" -> {PerFileGroup(rs)}
      [] strat = "per_pattern" -> PerPatternGroup(rs)
      [] strat = "per_committer" -> PerCommitterGroup(rs)
      [] strat = "single_pr" -> {SinglePRGroup(rs)}

\* Generator.Generate: the branch of a group.
BranchName(group) == Sprintf("recert/", group.ID)

\* Run: scan, enrich and check, in a fresh directory.
ScanAndCheck ==
    /\ gpc = "idle"
    /\ gRun < MaxRuns
    /\ gRun' = gRun + 1
    /\ \E dir \in TempDirs :
          /\ scanDir' = dir
          /\ results' = CheckedFiles(ScannedFiles(dir))
    /\ prevUnits' = {[group |-> groups[i], branch |-> prConfigs[i].Branch] :
                        i \in DOMAIN prConfigs}
    /\ groups' = <<>>
    /\ prConfigs' = <<>>
    /\ gpc' = "scanned"
    /\ UNCHANGED <<repoFiles, prStrategy, maxFilesPerPR>>
    /\ UNCHANGED <<engineVars, checkVars, resolveVars, commitVars,
                 decorVars>>

Group ==
    /\ gpc = "scanned"
    /\ groups' \in GroupOutcomes(prStrategy, results)
    /\ gpc' = "grouped"
    /\ UNCHANGED <<gRun, repoFiles, prStrategy, maxFilesPerPR, scanDir,
                   results, prConfigs, prevUnits>>
    /\ UNCHANGED <<engineVars, checkVars, resolveVars, commitVars,
                 decorVars>>

\* processGroup of every group, as far as the generation of its PRConfig.
Generate ==
    /\ gpc = "grouped"
    /\ prConfigs' = [i \in DOMAIN groups |-> [Branch |-> BranchName(groups[i])]]
    /\ gpc' = "idle"
    /\ UNCHANGED <<gRun, repoFiles, prStrategy, maxFilesPerPR, scanDir,
                   results, groups, prevUnits>>
    /\ UNCHANGED <<engineVars, checkVars, resolveVars, commitVars,
                 decorVars>>

IdleGrouper ==
    /\ gpc = "idle"
    /\ gRun = 0
    /\ repoFiles = [i \in RelPaths |-> [stale |-> TRUE, pattern |-> "p1",
                                        author |-> ""]]
    /\ prStrategy = "per_file"
    /\ maxFilesPerPR = 0
    /\ scanDir = ""
    /\ results = <<>>
    /\ groups = <<>>
    /\ prConfigs = <<>>
    /\ prevUnits = {}

InitGrouper ==
    /\ gpc = "idle"
    /\ gRun = 0
    /\ repoFiles \in [RelPaths -> [stale : BOOLEAN, pattern : PatternNames,
                                   author : Authors]]
    /\ prStrategy \in PRStrategies
    /\ maxFilesPerPR = 0
    /\ scanDir = ""
    /\ results = <<>>
    /\ groups = <<>>
    /\ prConfigs = <<>>
    /\ prevUnits = {}

\* A configuration with or without a cap, over files of one policy and
\* one author.
InitCapped ==
    /\ gpc = "idle"
    /\ gRun = 0
    /\ repoFiles \in [RelPaths -> [stale : BOOLEAN, pattern : {"p1"},
                                   author : {"alice"}]]
    /\ prStrategy \in PRStrategies
    /\ maxFilesPerPR \in 0..NumFiles
    /\ scanDir = ""
    /\ results = <<>>
    /\ groups = <<>>
    /\ prConfigs = <<>>
    /\ prevUnits = {}

\* ------------------------------------------------- reviewer assignment
\* The zero value of time.Time, which lastTime starts with and which a file
\* keeps when its history lookup failed.
ZeroTime == 0

AssignStrategies == {"static", "last_committer", "plugin", "composite"}

\* What GetAssignmentPlugin and the plugin's Resolve can do: no plugin of
\* that name, a plugin that is no AssignmentPlugin, a plugin whose Resolve
\* returns an error, a plugin whose Resolve returns a result.
PluginStates == {"not_found", "not_assignment", "resolve_error", "ok"}

PluginAssignees == <<"from-plugin">>

\* Variant: ties go to the file seen last.
After_OrEqual(t, u) == t >= u

\* time.Time.After.
After(t, u) == t > u

\* The loop of the last_committer case over group.Files.
RECURSIVE LastCommitter(_, _, _)
LastCommitter(files, lastAuthor, lastTime) ==
    IF files = <<>> THEN lastAuthor
    ELSE LET f == Head(files) IN
         IF f.File.CommitAuthor # "" /\ After(f.File.LastModified, lastTime)
         THEN LastCommitter(Tail(files), f.File.CommitAuthor,
                            f.File.LastModified)
         ELSE LastCommitter(Tail(files), lastAuthor, lastTime)

LastCommitterResult(group) ==
    LET lastAuthor == LastCommitter(group.Files, "", ZeroTime) IN
    [Assignees |-> IF lastAuthor # "" THEN <<lastAuthor>> ELSE <<>>,
     Err |-> FALSE]

\* Variant: a plugin that cannot be used is replaced by the fallback.
PluginResult_Fallback(cfg, plugin) ==
    IF plugin = "ok" THEN [Assignees |-> PluginAssignees, Err |-> FALSE]
    ELSE [Assignees |-> cfg.FallbackAssignees, Err |-> FALSE]

\* The plugin case: lookup, then the plugin's Resolve.
PluginResult(cfg, plugin) ==
    IF plugin \in {"not_found", "not_assignment"}
    THEN [Assignees |-> <<>>, Err |-> TRUE]
    ELSE IF plugin = "resolve_error"
    THEN [Assignees |-> <<>>, Err |-> TRUE]
    ELSE [Assignees |-> PluginAssignees, Err |-> FALSE]

\* Variant: the static case yields nobody.
StaticResult_Nobody(cfg) == [Assignees |-> <<>>, Err |-> FALSE]

\* The static case, and the default case that the composite strategy ends
\* in: the rules of the configuration are not consulted.
StaticResult(cfg) == [Assignees |-> cfg.FallbackAssignees, Err |-> FALSE]

DefaultResult(cfg) == [Assignees |-> cfg.FallbackAssignees, Err |-> FALSE]

ResolveResult(cfg, plugin, group) ==
    CASE cfg.Strategy = "static" -> StaticResult(cfg)
      [] cfg.Strategy = "last_committer" -> LastCommitterResult(group)
      [] cfg.Strategy = "plugin" -> PluginResult(cfg, plugin)
      [] OTHER -> DefaultResult(cfg)

Resolve ==
    /\ resolved = NoResult
    /\ resolved' = ResolveResult(assignCfg, pluginState, fileGroup)
    /\ UNCHANGED <<assignCfg, pluginState, fileGroup>>
    /\ UNCHANGED <<engineVars, checkVars, groupVars, commitVars,
                 decorVars>>

\* The files of a group as enrichment leaves them: a failed lookup leaves
\* the zero time and no author, a commit has a time and an author name
\* (possibly empty).
CommitTimes == {1, 2}
CommitAuthors == {"", "alice", "bob"}

EnrichedFiles ==
    {[File |-> [CommitAuthor |-> "", LastModified |-> ZeroTime]]}
    \cup {[File |-> [CommitAuthor |-> a, LastModified |-> t]] :
              a \in CommitAuthors, t \in CommitTimes}

\* The rules of a composite configuration; Pattern is given by what the
\* glob does on the group ("hit" or "miss").
RuleLists ==
    {<<>>,
     <<[Pattern |-> "miss", Strategy |-> "static",
        FallbackAssignees |-> <<"team-b">>]>>,
     <<[Pattern |-> "miss", Strategy |-> "static",
        FallbackAssignees |-> <<"team-b">>],
       [Pattern |-> "hit", Strategy |-> "static",
        FallbackAssignees |-> <<"team-a">>]>>,
     <<[Pattern |-> "hit", Strategy |-> "last_committer",
        FallbackAssignees |-> <<>>]>>}

FallbackLists == {<<>>, <<"user1", "user2">>}

FileLists == UNION {[1..n -> EnrichedFiles] : n \in 1..NumFiles}

InitResolver ==
    /\ assignCfg \in [Strategy : AssignStrategies, Rules : RuleLists,
                      FallbackAssignees : FallbackLists]
    /\ pluginState \in PluginStates
    /\ fileGroup \in [Files : FileLists]
    /\ resolved = NoResult

IdleResolver ==
    /\ assignCfg = [Strategy |-> "static", Rules |-> <<>>,
                    FallbackAssignees |-> <<>>]
    /\ pluginState = "ok"
    /\ fileGroup = [Files |-> <<>>]
    /\ resolved = NoResult

\* ------------------------------------------------------- provider gateway
\* An answer of the remote API to one request: the HTTP status, 0 when the
\* request was never sent because its context was already cancelled.
StatusOK == 200
StatusNotFound == 404
StatusServerError == 500
StatusNotSent == 0

\* GitLabProvider never hands ctx to the client; AzureDevOpsProvider.doRequest
\* builds every request with http.NewRequestWithContext(ctx, ...).
HonoursContext(p) == p = "azure"

CtxBlocks == cancelled /\ HonoursContext(provider)

\* What the remote side answers to a request (other than the GitLab branch
\* lookup): success unless the request fails or is never sent.
RequestStatus(fault) ==
    IF CtxBlocks THEN StatusNotSent
    ELSE IF fault THEN StatusServerError
    ELSE StatusOK

\* GET projects/:id/repository/branches/:branch answers 404 for a missing
\* branch; the Azure refs listing answers 200 with a count.
BranchQueryStatus(g, fault) ==
    IF CtxBlocks THEN StatusNotSent
    ELSE IF fault THEN StatusServerError
    ELSE IF provider = "gitlab" /\ branches[g] = 0 THEN StatusNotFound
    ELSE StatusOK

\* strings.Contains(err.Error(), "404"): the error text of a failed request
\* carries the request URL (which ends in the branch name) and the status.
ErrorTextHas404(status, nameHas404) == status = StatusNotFound \/ nameHas404

GitLabBranchExists(status, nameHas404) ==
    IF status # StatusOK
    THEN IF ErrorTextHas404(status, nameHas404)
         THEN [exists |-> FALSE, err |-> FALSE]
         ELSE [exists |-> FALSE, err |-> TRUE]
    ELSE [exists |-> TRUE, err |-> FALSE]

AzureBranchExists(status, count) ==
    IF status # StatusOK
    THEN [exists |-> FALSE, err |-> TRUE]
    ELSE [exists |-> count > 0, err |-> FALSE]

ProviderBranchExists(g, status) ==
    IF provider = "gitlab"
    THEN GitLabBranchExists(status, g \in names404)
    ELSE AzureBranchExists(status, branches[g])

\* GitLabProvider.PullRequestExists / AzureDevOpsProvider.PullRequestExists:
\* list the open pull requests of the head branch, any error is returned.
ProviderPullRequestExists(status, count) ==
    IF status # StatusOK
    THEN [exists |-> FALSE, err |-> TRUE]
    ELSE [exists |-> count > 0, err |-> FALSE]

\* CreateBranch / CreateCommit / CreatePullRequest return the API error.
ProviderMutationErr(status) == status # StatusOK

\* ------------------------------------------------- Engine.processGroup flow
\* Each operator gives the statement processGroup continues with; "ok" and
\* "fail" are its two returns (nil / error).
AfterResolve(err) == IF err THEN "fail" ELSE "generate"

\* Variant: the dry-run flag is not consulted.
AfterGenerate_NoDryRun(dry) == "branchExists"

AfterGenerate(dry) == IF dry THEN "ok" ELSE "branchExists"

\* Variant: the branch is created whether or not it was found.
AfterBranchExists_AlwaysCreate(err, exists) ==
    IF err THEN "fail" ELSE "createBranch"

AfterBranchExists(err, exists) ==
    IF err THEN "fail"
    ELSE IF exists THEN "createCommit"
    ELSE "createBranch"

\* Variant: the pull request is opened right after the branch.
AfterCreateBranch_SkipCommit(err) == IF err THEN "fail" ELSE "prExists"

AfterCreateBranch(err) == IF err THEN "fail" ELSE "createCommit"

AfterCreateCommit(err) == IF err THEN "fail" ELSE "prExists"

\* Variant: the answer of the existence check is not consulted.
AfterPullRequestExists_NoCheck(err, exists) ==
    IF err THEN "fail" ELSE "createPR"

AfterPullRequestExists(err, exists) ==
    IF err THEN "fail"
    ELSE IF exists THEN "ok"
    ELSE "createPR"

AfterCreatePullRequest(err) == IF err THEN "fail" ELSE "ok"

\* ------------------------------------------------------------- Engine.Run
\* Variant: Run returns the first error of processGroup.
AfterGroup_Abort(err) == IF err THEN "aborted" ELSE "loop"

\* The range loop of Run: an error of processGroup is logged and counted,
\* and the loop goes on with the next group.
AfterGroup(err) == "loop"

\* Variant: a failed group is not counted.
CountGroup_DropFailed(err, counters) ==
    IF err
    THEN counters
    ELSE [processed |-> counters.processed + 1, failed |-> counters.failed]

CountGroup(err, counters) ==
    IF err
    THEN [processed |-> counters.processed, failed |-> counters.failed + 1]
    ELSE [processed |-> counters.processed + 1, failed |-> counters.failed]

\* The loop condition: Run starts the next group while one is left.
StartsNext(i, ctxDone) == i < NumGroups

\* processGroup continues at label l, or returns to the loop of Run.
Goto(l) ==
    IF l \in {"ok", "fail"}
    THEN LET c == CountGroup(l = "fail",
                             [processed |-> processed, failed |-> failed])
         IN  /\ result' = [result EXCEPT
                   ![idx] = IF l = "ok" THEN "processed" ELSE "failed"]
             /\ processed' = c.processed
             /\ failed' = c.failed
             /\ pc' = AfterGroup(l = "fail")
    ELSE /\ pc' = l
         /\ UNCHANGED <<result, processed, failed>>

Backend == [branches |-> branches, commits |-> commits, prs |-> prs]

FaultChoices == IF CtxBlocks \/ faults >= MaxFaults THEN {FALSE} ELSE BOOLEAN

\* What a gateway method handed back to processGroup.
CheckRet(r) == IF r.err THEN "err" ELSE IF r.exists THEN "true" ELSE "false"

MutationRet(status) == IF ProviderMutationErr(status) THEN "err" ELSE "ok"

Logged(op, status, ret) ==
    [calls EXCEPT ![idx] = Append(@, [op |-> op, status |-> status, ret |-> ret])]

Count(fault) == IF fault THEN faults + 1 ELSE faults

cfgVars == <<provider, strategy, names404>>

\* NewEngine + Run: a new run starts once the previous one has returned.
StartRun ==
    /\ pc \in {"idle", "done", "aborted"}
    /\ run < MaxRuns
    /\ run' = run + 1
    /\ dryRun' \in BOOLEAN
    /\ cancelled' = FALSE
    /\ pc' = "scan"
    /\ idx' = 0
    /\ processed' = 0
    /\ failed' = 0
    /\ calls' = [g \in GroupIdx |-> <<>>]
    /\ stages' = [g \in GroupIdx |-> {}]
    /\ result' = [g \in GroupIdx |-> "none"]
    /\ pre' = [g \in GroupIdx |-> [branch |-> FALSE, pr |-> FALSE]]
    /\ atStart' = Backend
    /\ lateStart' = {}
    /\ UNCHANGED <<cfgVars, branches, commits, prs, faults, checkErr>>
    /\ UNCHANGED <<checkVars, groupVars, resolveVars, commitVars,
                 decorVars>>

\* Scan, Enrich, Check and Group: an error of the scan or of the grouping
\* makes Run return it; otherwise the groups of the repository are known.
ScanAndGroup ==
    /\ pc = "scan"
    /\ \E ok \in BOOLEAN : pc' = IF ok THEN "loop" ELSE "aborted"
    /\ UNCHANGED <<cfgVars, dryRun, cancelled, run, idx, processed, failed,
                   branches, commits, prs, calls, stages, result, pre,
                   atStart, lateStart, faults, checkErr>>
    /\ UNCHANGED <<checkVars, groupVars, resolveVars, commitVars,
                 decorVars>>

\* for _, group := range groups: the next group, or the summary.
Loop ==
    /\ pc = "loop"
    /\ IF StartsNext(idx, cancelled)
       THEN /\ idx' = idx + 1
            /\ pc' = "resolve"
            /\ pre' = [pre EXCEPT ![idx + 1] =
                         [branch |-> branches[idx + 1] > 0,
                          pr |-> prs[idx + 1] > 0]]
            /\ lateStart' = IF cancelled THEN lateStart \cup {idx + 1}
                            ELSE lateStart
       ELSE /\ pc' = "done"
            /\ UNCHANGED <<idx, pre, lateStart>>
    /\ UNCHANGED <<cfgVars, dryRun, cancelled, run, processed, failed,
                   branches, commits, prs, calls, stages, result, atStart,
                   faults, checkErr>>
    /\ UNCHANGED <<checkVars, groupVars, resolveVars, commitVars,
                 decorVars>>

\* e.resolver.Resolve (only the plugin strategy can return an error), then
\* e.prGen.Generate, the base branch and the dry-run return.
ResolveAndGenerate ==
    /\ pc = "resolve"
    /\ \E err \in (IF strategy = "plugin" THEN BOOLEAN ELSE {FALSE}) :
          LET l == AfterResolve(err)
          IN  IF l = "generate"
              THEN /\ Goto(AfterGenerate(dryRun))
                   /\ stages' = [stages EXCEPT ![idx] = @ \cup {"assign", "render"}]
              ELSE /\ Goto(l)
                   /\ stages' = [stages EXCEPT ![idx] = @ \cup {"assign"}]
    /\ UNCHANGED <<cfgVars, dryRun, cancelled, run, idx, branches, commits,
                   prs, calls, pre, atStart, lateStart, faults, checkErr>>
    /\ UNCHANGED <<checkVars, groupVars, resolveVars, commitVars,
                 decorVars>>

BranchExists ==
    /\ pc = "branchExists"
    /\ \E fault \in FaultChoices :
          LET status == BranchQueryStatus(idx, fault)
              r == ProviderBranchExists(idx, status)
          IN  /\ calls' = Logged("BranchExists", status, CheckRet(r))
              /\ faults' = Count(fault)
              /\ checkErr' = (checkErr \/ fault)
              /\ Goto(AfterBranchExists(r.err, r.exists))
    /\ UNCHANGED <<cfgVars, dryRun, cancelled, run, idx, branches, commits,
                   prs, stages, pre, atStart, lateStart>>
    /\ UNCHANGED <<checkVars, groupVars, resolveVars, commitVars,
                 decorVars>>

CreateBranch ==
    /\ pc = "createBranch"
    /\ \E fault \in FaultChoices :
          LET status == RequestStatus(fault)
          IN  /\ calls' = Logged("CreateBranch", status, MutationRet(status))
              /\ faults' = Count(fault)
              /\ branches' = IF status = StatusOK
                             THEN [branches EXCEPT ![idx] = @ + 1]
                             ELSE branches
              /\ Goto(AfterCreateBranch(ProviderMutationErr(status)))
    /\ UNCHANGED <<cfgVars, dryRun, cancelled, run, idx, commits, prs,
                   stages, pre, atStart, lateStart, checkErr>>
    /\ UNCHANGED <<checkVars, groupVars, resolveVars, commitVars,
                 decorVars>>

CreateCommit ==
    /\ pc = "createCommit"
    /\ \E fault \in FaultChoices :
          LET status == RequestStatus(fault)
          IN  /\ calls' = Logged("CreateCommit", status, MutationRet(status))
              /\ faults' = Count(fault)
              /\ commits' = IF status = StatusOK
                            THEN [commits EXCEPT ![idx] = @ + 1]
                            ELSE commits
              /\ Goto(AfterCreateCommit(ProviderMutationErr(status)))
    /\ UNCHANGED <<cfgVars, dryRun, cancelled, run, idx, branches, prs,
                   stages, pre, atStart, lateStart, checkErr>>
    /\ UNCHANGED <<checkVars, groupVars, resolveVars, commitVars,
                 decorVars>>

PullRequestExists ==
    /\ pc = "prExists"
    /\ \E fault \in FaultChoices :
          LET status == RequestStatus(fault)
              r == ProviderPullRequestExists(status, prs[idx])
          IN  /\ calls' = Logged("PullRequestExists", status, CheckRet(r))
              /\ faults' = Count(fault)
              /\ checkErr' = (checkErr \/ fault)
              /\ Goto(AfterPullRequestExists(r.err, r.exists))
    /\ UNCHANGED <<cfgVars, dryRun, cancelled, run, idx, branches, commits,
                   prs, stages, pre, atStart, lateStart>>
    /\ UNCHANGED <<checkVars, groupVars, resolveVars, commitVars,
                 decorVars>>

CreatePullRequest ==
    /\ pc = "createPR"
    /\ \E fault \in FaultChoices :
          LET status == RequestStatus(fault)
          IN  /\ calls' = Logged("CreatePullRequest", status, MutationRet(status))
              /\ faults' = Count(fault)
              /\ prs' = IF status = StatusOK
                        THEN [prs EXCEPT ![idx] = @ + 1]
                        ELSE prs
              /\ Goto(AfterCreatePullRequest(ProviderMutationErr(status)))
    /\ UNCHANGED <<cfgVars, dryRun, cancelled, run, idx, branches, commits,
                   stages, pre, atStart, lateStart, checkErr>>
    /\ UNCHANGED <<checkVars, groupVars, resolveVars, commitVars,
                 decorVars>>

\* The caller of Run(ctx) cancels the context while the run is under way.
Cancel ==
    /\ pc \notin {"idle", "done", "aborted"}
    /\ ~cancelled
    /\ cancelled' = TRUE
    /\ UNCHANGED <<cfgVars, dryRun, pc, run, idx, processed, failed,
                   branches, commits, prs, calls, stages, result, pre,
                   atStart, lateStart, faults, checkErr>>
    /\ UNCHANGED <<checkVars, groupVars, resolveVars, commitVars,
                 decorVars>>

InitEngine ==
    /\ provider \in Providers
    /\ strategy \in Strategies
    /\ names404 \in {{}, {1}}
    /\ dryRun = FALSE
    /\ cancelled = FALSE
    /\ pc = "idle"
    /\ run = 0
    /\ idx = 0
    /\ processed = 0
    /\ failed = 0
    /\ branches = [g \in GroupIdx |-> 0]
    /\ commits = [g \in GroupIdx |-> 0]
    /\ prs = [g \in GroupIdx |-> 0]
    /\ calls = [g \in GroupIdx |-> <<>>]
    /\ stages = [g \in GroupIdx |-> {}]
    /\ result = [g \in GroupIdx |-> "none"]
    /\ pre = [g \in GroupIdx |-> [branch |-> FALSE, pr |-> FALSE]]
    /\ atStart = [branches |-> branches, commits |-> commits, prs |-> prs]
    /\ lateStart = {}
    /\ faults = 0
    /\ checkErr = FALSE

\* ------------------------------------------------ Provider.CreateCommit
\* One call of CreateCommit on one branch, request by request, while
\* another writer may push to the same branch.  The tip of the branch is
\* the number of commits in branchLog.  Any request may be answered with
\* an error; a request that names a tip is also refused when the branch
\* is no longer at that tip.

CommitProviders == {"github", "gitlab", "azure"}
Paths == {"a.tf", "b.tf"}
ChangeLists == {<<>>, <<"a.tf">>, <<"b.tf">>, <<"a.tf", "b.tf">>}

Tip == Len(branchLog)
OtherPushes == Cardinality({i \in DOMAIN branchLog : branchLog[i] = "other"})

FirstStep(p) ==
    CASE p = "github" -> "getRef"
      [] p = "gitlab" -> "submit"
      [] p = "azure" -> "getRefs"

\* A request failed: CreateCommit returns the error.
Fail ==
    /\ cRet' = "err"
    /\ cStep' = "done"

AfterUpdateRef_Ignored(rejected) == "ok"

AfterUpdateRef(rejected) == IF rejected THEN "err" ELSE "ok"

OldObjectId_Latest(ref) == Tip

OldObjectId(ref) == ref

\* The action / changeType CreateCommit gives a change, whether or not the
\* path exists on the branch.
ChangeAction(p, exists) == IF p = "gitlab" THEN "create" ELSE "add"

Actions(p) ==
    [i \in DOMAIN cChanges |->
        [path |-> cChanges[i],
         action |-> ChangeAction(p, cChanges[i] \in onBranch)]]

\* The branch received the commit of this call.
Committed == branchLog' = Append(branchLog, "self")

GetRef ==
    /\ cProvider = "github"
    /\ cStep = "getRef"
    /\ \E err \in BOOLEAN :
        IF err
        THEN Fail /\ UNCHANGED refTip
        ELSE /\ refTip' = Tip
             /\ cStep' = IF cChanges = <<>> THEN "tree" ELSE "blob"
             /\ UNCHANGED cRet
    /\ UNCHANGED <<cProvider, cChanges, onBranch, branchLog, blobs, treeMade,
                   commitMade, submitted>>
    /\ UNCHANGED <<engineVars, checkVars, groupVars, resolveVars, decorVars>>

CreateBlob ==
    /\ cProvider = "github"
    /\ cStep = "blob"
    /\ \E err \in BOOLEAN :
        IF err
        THEN Fail /\ UNCHANGED blobs
        ELSE /\ blobs' = blobs + 1
             /\ cStep' = IF blobs + 1 = Len(cChanges) THEN "tree" ELSE "blob"
             /\ UNCHANGED cRet
    /\ UNCHANGED <<cProvider, cChanges, onBranch, branchLog, refTip, treeMade,
                   commitMade, submitted>>
    /\ UNCHANGED <<engineVars, checkVars, groupVars, resolveVars, decorVars>>

CreateTree ==
    /\ cProvider = "github"
    /\ cStep = "tree"
    /\ \E err \in BOOLEAN :
        IF err
        THEN Fail /\ UNCHANGED treeMade
        ELSE /\ treeMade' = TRUE
             /\ cStep' = "commit"
             /\ UNCHANGED cRet
    /\ UNCHANGED <<cProvider, cChanges, onBranch, branchLog, refTip, blobs,
                   commitMade, submitted>>
    /\ UNCHANGED <<engineVars, checkVars, groupVars, resolveVars, decorVars>>

CreateCommitObject ==
    /\ cProvider = "github"
    /\ cStep = "commit"
    /\ \E err \in BOOLEAN :
        IF err
        THEN Fail /\ UNCHANGED commitMade
        ELSE /\ commitMade' = TRUE
             /\ cStep' = "updateRef"
             /\ UNCHANGED cRet
    /\ UNCHANGED <<cProvider, cChanges, onBranch, branchLog, refTip, blobs,
                   treeMade, submitted>>
    /\ UNCHANGED <<engineVars, checkVars, groupVars, resolveVars, decorVars>>

\* UpdateRef with force = false: refused unless the new commit, whose
\* parent is the tip read by GetRef, is a fast-forward of the branch.
UpdateRef ==
    /\ cProvider = "github"
    /\ cStep = "updateRef"
    /\ \E err \in BOOLEAN :
        LET rejected == err \/ Tip # refTip
        IN  /\ IF rejected
               THEN UNCHANGED branchLog
               ELSE Committed
            /\ cRet' = AfterUpdateRef(rejected)
    /\ cStep' = "done"
    /\ UNCHANGED <<cProvider, cChanges, onBranch, refTip, blobs, treeMade,
                   commitMade, submitted>>
    /\ UNCHANGED <<engineVars, checkVars, groupVars, resolveVars, decorVars>>

\* GitLabProvider.CreateCommit: one Commits.CreateCommit request.
GitLabCommit ==
    /\ cProvider = "gitlab"
    /\ cStep = "submit"
    /\ submitted' = Actions("gitlab")
    /\ \E err \in BOOLEAN :
        /\ IF err THEN UNCHANGED branchLog ELSE Committed
        /\ cRet' = IF err THEN "err" ELSE "ok"
    /\ cStep' = "done"
    /\ UNCHANGED <<cProvider, cChanges, onBranch, refTip, blobs, treeMade,
                   commitMade>>
    /\ UNCHANGED <<engineVars, checkVars, groupVars, resolveVars, decorVars>>

\* AzureDevOpsProvider.CreateCommit, first request: the ref of the branch.
\* An error and an empty answer both end the call with an error.
AzureGetRefs ==
    /\ cProvider = "azure"
    /\ cStep = "getRefs"
    /\ \E err \in BOOLEAN :
        IF err
        THEN Fail /\ UNCHANGED refTip
        ELSE /\ refTip' = Tip
             /\ cStep' = "push"
             /\ UNCHANGED cRet
    /\ UNCHANGED <<cProvider, cChanges, onBranch, branchLog, blobs, treeMade,
                   commitMade, submitted>>
    /\ UNCHANGED <<engineVars, checkVars, groupVars, resolveVars, decorVars>>

\* AzureDevOpsProvider.CreateCommit, second request: one push whose
\* refUpdate carries oldObjectId; refused when the branch is elsewhere.
AzurePush ==
    /\ cProvider = "azure"
    /\ cStep = "push"
    /\ submitted' = Actions("azure")
    /\ \E err \in BOOLEAN :
        LET rejected == err \/ OldObjectId(refTip) # Tip
        IN  /\ IF rejected
               THEN UNCHANGED branchLog
               ELSE Committed
            /\ cRet' = IF rejected THEN "err" ELSE "ok"
    /\ cStep' = "done"
    /\ UNCHANGED <<cProvider, cChanges, onBranch, refTip, blobs, treeMade,
                   commitMade>>
    /\ UNCHANGED <<engineVars, checkVars, groupVars, resolveVars, decorVars>>

\* Another writer pushes to the branch while CreateCommit is under way.
OtherPush ==
    /\ cStep \notin {"idle", "done"}
    /\ OtherPushes < MaxPushes
    /\ branchLog' = Append(branchLog, "other")
    /\ UNCHANGED <<cProvider, cStep, cChanges, onBranch, refTip, blobs,
                   treeMade, commitMade, submitted, cRet>>
    /\ UNCHANGED <<engineVars, checkVars, groupVars, resolveVars, decorVars>>

InitCommitter ==
    /\ cProvider \in CommitProviders
    /\ cStep = FirstStep(cProvider)
    /\ cChanges \in ChangeLists
    /\ onBranch \in SUBSET Paths
    /\ branchLog = <<>>
    /\ refTip = -1
    /\ blobs = 0
    /\ treeMade = FALSE
    /\ commitMade = FALSE
    /\ submitted = <<>>
    /\ cRet = "none"

IdleCommitter ==
    /\ cProvider = "gitlab"
    /\ cStep = "idle"
    /\ cChanges = <<>>
    /\ onBranch = {}
    /\ branchLog = <<>>
    /\ refTip = -1
    /\ blobs = 0
    /\ treeMade = FALSE
    /\ commitMade = FALSE
    /\ submitted = <<>>
    /\ cRet = "none"

\* ------------------------------------------- decorator of processGroup
\* Text is a sequence of pieces: "P" and "S" are text of the decorator,
\* "{timestamp}" the placeholder, "\n" the end of a line, "x" and "y" text
\* of the file, and Format(n) the rendering of second n.

Templates ==
    {<<>>, <<"P">>, <<"P", "\n">>, <<"P", "{timestamp}">>,
     <<"P", "{timestamp}", "\n">>, <<"P", "{timestamp}", "S", "\n">>}
Bodies ==
    {<<>>, <<"x">>, <<"x", "\n">>, <<"x", "\n", "y">>,
     <<"x", "\n", "y", "\n">>, <<"\n", "x">>}

Format(n) == "t" \o ToString(n)

HasPrefix(s, prefix) ==
    /\ Len(prefix) <= Len(s)
    /\ SubSeq(s, 1, Len(prefix)) = prefix

\* Pieces up to the end of the first line of s, the "\n" included when
\* there is one: what `.*\n?` consumes.
LineEnd(s) ==
    IF \E i \in DOMAIN s : s[i] = "\n"
    THEN CHOOSE i \in DOMAIN s :
            /\ s[i] = "\n"
            /\ \A j \in 1..(i - 1) : s[j] # "\n"
    ELSE Len(s)

\* existingDecorator.ReplaceAllString(content, ""): the expression is
\* anchored at the start of the text and quotes the template as written.
RemoveExisting(tpl, c) ==
    IF HasPrefix(c, tpl)
    THEN LET rest == SubSeq(c, Len(tpl) + 1, Len(c))
         IN  SubSeq(rest, LineEnd(rest) + 1, Len(rest))
    ELSE c

\* strings.ReplaceAll(pattern.Decorator, "{timestamp}", time.Now().Format(..))
Render(tpl, n) ==
    [i \in DOMAIN tpl |-> IF tpl[i] = "{timestamp}" THEN Format(n) ELSE tpl[i]]

Decorated(tpl, c, n) == Render(tpl, n) \o RemoveExisting(tpl, c)

\* One recertification of the file: the change of processGroup, merged.
\* A pattern without decorator yields no change.
Decorate ==
    /\ decorated < MaxRuns
    /\ decorated' = decorated + 1
    /\ \E d \in 1..2 :
        /\ stamp' = stamp + d
        /\ content' = IF decorator = <<>>
                      THEN content
                      ELSE Decorated(decorator, content, stamp + d)
    /\ UNCHANGED decorator
    /\ UNCHANGED <<engineVars, checkVars, groupVars, resolveVars, commitVars>>

InitDecorator ==
    /\ decorator \in Templates
    /\ content \in Bodies
    /\ stamp = 0
    /\ decorated = 0

IdleDecorator ==
    /\ decorator = <<>>
    /\ content = <<>>
    /\ stamp = 0
    /\ decorated = 0

IdleEngine ==
    /\ InitEngine
    /\ provider = "gitlab"
    /\ strategy = "static"
    /\ names404 = {}

Init == InitEngine /\ IdleChecker /\ IdleGrouper /\ IdleResolver
    /\ IdleCommitter /\ IdleDecorator

Next ==
    \/ StartRun
    \/ ScanAndGroup
    \/ Loop
    \/ ResolveAndGenerate
    \/ BranchExists
    \/ CreateBranch
    \/ CreateCommit
    \/ PullRequestExists
    \/ CreatePullRequest
    \/ Cancel

Spec == Init /\ [][Next]_vars

CheckInit == IdleEngine /\ InitChecker /\ IdleGrouper /\ IdleResolver
    /\ IdleCommitter /\ IdleDecorator

CheckNext == Check

CheckSpec == CheckInit /\ [][CheckNext]_vars

MatchInit == IdleEngine /\ InitMatcher /\ IdleGrouper /\ IdleResolver
    /\ IdleCommitter /\ IdleDecorator

MatchSpec == MatchInit /\ [][CheckNext]_vars

FindNext == FindPattern \/ Check

FindSpec == MatchInit /\ [][FindNext]_vars

GroupInit == IdleEngine /\ IdleChecker /\ InitGrouper /\ IdleResolver
    /\ IdleCommitter /\ IdleDecorator

GroupNext == ScanAndCheck \/ Group \/ Generate

GroupSpec == GroupInit /\ [][GroupNext]_vars

CapInit == IdleEngine /\ IdleChecker /\ InitCapped /\ IdleResolver
    /\ IdleCommitter /\ IdleDecorator

CapSpec == CapInit /\ [][GroupNext]_vars

EnrichInit == IdleEngine /\ InitEnricher /\ IdleGrouper /\ IdleResolver
    /\ IdleCommitter /\ IdleDecorator

EnrichNext == Enrich \/ Check \/ Tick \/ Recheck

EnrichSpec == EnrichInit /\ [][EnrichNext]_vars

ResolveInit == IdleEngine /\ IdleChecker /\ IdleGrouper /\ InitResolver
    /\ IdleCommitter /\ IdleDecorator

ResolveNext == Resolve

ResolveSpec == ResolveInit /\ [][ResolveNext]_vars

CommitInit == IdleEngine /\ IdleChecker /\ IdleGrouper /\ IdleResolver
    /\ InitCommitter /\ IdleDecorator

CommitNext ==
    \/ GetRef
    \/ CreateBlob
    \/ CreateTree
    \/ CreateCommitObject
    \/ UpdateRef
    \/ GitLabCommit
    \/ AzureGetRefs
    \/ AzurePush
    \/ OtherPush

CommitSpec == CommitInit /\ [][CommitNext]_vars

DecorInit == IdleEngine /\ IdleChecker /\ IdleGrouper /\ IdleResolver
    /\ IdleCommitter /\ InitDecorator

DecorNext == Decorate

DecorSpec == DecorInit /\ [][DecorNext]_vars

\* ================================================================= claims
Mutations == {"CreateBranch", "CreateCommit", "CreatePullRequest"}
Checks == {"BranchExists", "PullRequestExists"}

Ops(g) == {calls[g][i].op : i \in 1..Len(calls[g])}

\* The answer of an existence check that leaves the question open: the
\* request failed or was never sent (a 404 of the branch lookup is an answer).
Undetermined(c) ==
    /\ c.op \in Checks
    /\ c.status \notin {StatusOK, StatusNotFound}

C2_NoMutationOnRerun ==
    \A g \in GroupIdx :
        (result[g] # "none" /\ pre[g].branch /\ pre[g].pr) =>
            Ops(g) \cap Mutations = {}

\* C3: in the calls of one unit, CreateCommit comes only after the branch
\* was ensured (found by BranchExists or created by CreateBranch), and
\* CreatePullRequest comes only after a successful CreateCommit and after a
\* PullRequestExists check that followed that commit.
C3_CallOrder ==
    \A g \in GroupIdx :
        \A i \in 1..Len(calls[g]) :
            LET c == calls[g][i] IN
            /\ c.op = "CreateCommit" =>
                  \E j \in 1..(i - 1) :
                      \/ calls[g][j].op = "BranchExists"
                           /\ calls[g][j].ret = "true"
                      \/ calls[g][j].op = "CreateBranch"
                           /\ calls[g][j].ret = "ok"
            /\ c.op = "CreateBranch" =>
                  \A j \in 1..(i - 1) :
                      calls[g][j].op \notin {"CreateCommit", "CreatePullRequest"}
            /\ c.op = "CreatePullRequest" =>
                  \E j \in 1..(i - 1) :
                      /\ calls[g][j].op = "CreateCommit"
                      /\ calls[g][j].ret = "ok"
                      /\ \E k \in (j + 1)..(i - 1) :
                            /\ calls[g][k].op = "PullRequestExists"
                            /\ calls[g][k].ret = "false"

\* A unit went through all five gateway calls.
C3_Witness ==
    \E g \in GroupIdx :
        /\ Len(calls[g]) = 5
        /\ calls[g][2].op = "CreateBranch"
        /\ calls[g][3].op = "CreateCommit"
        /\ calls[g][5].op = "CreatePullRequest"
        /\ calls[g][5].ret = "ok"

\* C4: an existence check whose request failed is reported to processGroup
\* as an error, so that no creating call follows it for that unit.
C4_FailedCheckIsError ==
    \A g \in GroupIdx :
        \A i \in 1..Len(calls[g]) :
            Undetermined(calls[g][i]) =>
                /\ calls[g][i].ret = "err"
                /\ \A j \in (i + 1)..Len(calls[g]) :
                      calls[g][j].op \notin Mutations

\* C5: when the run has returned, every unit was processed whatever happened
\* to the others, and a run is never aborted once units are being processed.
C5_FailureIsolated ==
    /\ pc = "done" => \A g \in GroupIdx : result[g] \in {"processed", "failed"}
    /\ pc = "aborted" => \A g \in GroupIdx : result[g] = "none"

\* A unit failed and the unit after it was processed all the same.
C5_Witness ==
    /\ pc = "done"
    /\ \E g \in GroupIdx :
          /\ g + 1 \in GroupIdx
          /\ result[g] = "failed"
          /\ result[g + 1] = "processed"

CreatedThisRun(g, op) ==
    \E i \in 1..Len(calls[g]) : calls[g][i].op = op /\ calls[g][i].ret = "ok"

\* C6: at the end of a cancelled run in which no request failed on the
\* remote side, every branch the run created has its commit and every
\* commit it created has its pull request.
C6_NoHalfUnitOnCancel ==
    (pc = "done" /\ cancelled /\ faults = 0) =>
        \A g \in GroupIdx :
            /\ CreatedThisRun(g, "CreateBranch") =>
                   CreatedThisRun(g, "CreateCommit")
            /\ CreatedThisRun(g, "CreateCommit") => prs[g] > 0

\* C7: no unit is started once the context of the run is cancelled.
C7_NoStartAfterCancel == lateStart = {}

FloorDays(hours) == hours \div 24

C11_PriorityTable ==
    checkResult # NoResult =>
        LET d == checkResult.DaysSince
            t == checkResult.Threshold
            pr == checkResult.Priority
        IN  /\ pr = "Critical" <=> 2 * d > 3 * t
            /\ pr = "High" <=> (d >= t /\ 2 * d <= 3 * t)
            /\ pr = "Medium" <=> (5 * d >= 4 * t /\ d < t)
            /\ pr = "Low" <=> 5 * d < 4 * t
            /\ checkResult.NeedsRecert => pr \in {"Critical", "High"}

\* A verdict whose ratio is exactly 1.5 got High.
C11_Witness ==
    /\ checkResult # NoResult
    /\ 2 * checkResult.DaysSince = 3 * checkResult.Threshold
    /\ checkResult.Priority = "High"

\* A policy matches the file: it is enabled, some include glob matches the
\* path and no exclude glob does.
Matches(p) ==
    /\ p.Enabled
    /\ \E i \in DOMAIN p.Paths : p.Paths[i] = "hit"
    /\ ~\E i \in DOMAIN p.Exclude : p.Exclude[i] = "hit"

\* C12: the verdict of a file names the first policy, in configuration
\* order, that is enabled and matches the file, whatever follows it.
C12_FirstEnabledMatchWins ==
    checked =>
        \A j \in 1..Len(patterns) :
            (Matches(patterns[j]) /\ \A k \in 1..(j - 1) : ~Matches(patterns[k]))
                => /\ checkResult # NoResult
                   /\ checkResult.PatternName = patterns[j].Name
                   /\ checkResult.Threshold = patterns[j].RecertificationDays

\* Two enabled policies match the file and the verdict names the first.
C12_Witness ==
    /\ checked
    /\ Matches(patterns[1]) /\ Matches(patterns[2])
    /\ checkResult # NoResult
    /\ checkResult.PatternName = patterns[1].Name

\* C13: a file that no enabled policy matches gets no verdict.
C13_NoMatchNoVerdict ==
    (checked /\ \A j \in 1..Len(patterns) : ~Matches(patterns[j]))
        => checkResult = NoResult

\* An enabled policy includes the file and excludes it again, no policy
\* matches, and the file got no verdict.
C13_Witness ==
    /\ checked
    /\ \E j \in 1..Len(patterns) :
          /\ patterns[j].Enabled
          /\ Matched(patterns[j].Paths)
          /\ Excluded(patterns[j].Exclude)
    /\ \A j \in 1..Len(patterns) : ~Matches(patterns[j])
    /\ checkResult = NoResult

\* The places a verdict holds in the groups.
Places(res) ==
    {<<g, k>> \in (DOMAIN groups) \X (1..NumFiles) :
        k \in DOMAIN groups[g].Files /\ groups[g].Files[k] = res}

\* C14: once the verdicts are grouped, every stale verdict is in exactly
\* one unit, at one place, no other verdict is in any unit, and the units
\* hold nothing but verdicts of the run.
C14_GroupingIsPartition ==
    gpc # "scanned" =>
        /\ \A i \in DOMAIN results :
              Cardinality(Places(results[i]))
                  = IF results[i].NeedsRecert THEN 1 ELSE 0
        /\ \A g \in DOMAIN groups :
              /\ groups[g].Files # <<>>
              /\ \A k \in DOMAIN groups[g].Files :
                    \E i \in DOMAIN results : results[i] = groups[g].Files[k]

\* Two stale verdicts share a unit while a non-stale one is in none.
C14_Witness ==
    /\ gpc = "grouped"
    /\ \E g \in DOMAIN groups : Len(groups[g].Files) >= 2
    /\ \E i \in DOMAIN results : ~results[i].NeedsRecert

\* What a unit stands for, whatever the run: the repository file, the
\* policy, the author, or all files.
LogicalUnit(group) ==
    CASE group.Strategy = "per_file" -> <<"file", group.Files[1].File.Path[2]>>
      [] group.Strategy = "per_pattern" -> <<"pattern", group.Files[1].PatternName>>
      [] group.Strategy = "per_committer" -> <<"author", AuthorKey(group.Files[1])>>
      [] group.Strategy = "single_pr" -> <<"all">>

\* C15: a unit of this run has the branch name that the run before gave to
\* the unit standing for the same file, policy, author or all-files set.
C15_SameBranchEveryRun ==
    \A u \in prevUnits :
        \A i \in DOMAIN prConfigs :
            LogicalUnit(u.group) = LogicalUnit(groups[i])
                => prConfigs[i].Branch = u.branch

\* C16: a unit whose assignment was attempted goes on to the generation of
\* its pull request and, outside a dry run, to the gateway, whether or not
\* the resolution of its assignees succeeded.
C16_ResolveNeverBlocks ==
    \A g \in GroupIdx :
        ("assign" \in stages[g] /\ result[g] # "none") =>
            /\ "render" \in stages[g]
            /\ ~dryRun => Ops(g) # {}

MatchingRules == {i \in DOMAIN assignCfg.Rules : assignCfg.Rules[i].Pattern = "hit"}

\* C18: the static strategy, and the composite strategy with no matching
\* rule, return the fallback assignees without error, so a non-empty
\* fallback gives a non-empty list.
C18_FallbackAssignees ==
    (resolved # NoResult
        /\ \/ assignCfg.Strategy = "static"
           \/ assignCfg.Strategy = "composite" /\ MatchingRules = {})
        => /\ ~resolved.Err
           /\ resolved.Assignees = assignCfg.FallbackAssignees
           /\ assignCfg.FallbackAssignees # <<>> => resolved.Assignees # <<>>

\* A composite configuration has rules, none matches, and the non-empty
\* fallback was returned.
C18_Witness ==
    /\ resolved # NoResult
    /\ assignCfg.Strategy = "composite"
    /\ assignCfg.Rules # <<>> /\ MatchingRules = {}
    /\ resolved.Assignees = assignCfg.FallbackAssignees
    /\ resolved.Assignees # <<>>

\* The files of the group that carry an author, and among them those with
\* the latest modification time.
Authored ==
    {i \in DOMAIN fileGroup.Files : fileGroup.Files[i].File.CommitAuthor # ""}

Newest ==
    {i \in Authored :
        \A j \in Authored :
            fileGroup.Files[j].File.LastModified
                <= fileGroup.Files[i].File.LastModified}

First(S) == CHOOSE i \in S : \A j \in S : i <= j

LatestAuthor ==
    IF Authored = {} THEN <<>>
    ELSE <<fileGroup.Files[First(Newest)].File.CommitAuthor>>

\* What the strategy of a rule yields for the group.
RuleAssignees(rule) ==
    IF rule.Strategy = "last_committer" THEN LatestAuthor
    ELSE rule.FallbackAssignees

\* C19: under the composite strategy with a matching rule, the assignees
\* are those of the strategy of the first matching rule.
C19_FirstMatchingRule ==
    (resolved # NoResult /\ assignCfg.Strategy = "composite"
        /\ MatchingRules # {})
        => resolved.Assignees
               = RuleAssignees(assignCfg.Rules[First(MatchingRules)])

C21_LookupFailureIsStale ==
    (checked /\ lookupErr) =>
        /\ checkResult # NoResult
        /\ checkResult.NeedsRecert

\* C24: executing Check again with the same files and patterns returns the
\* verdict the first execution returned.
C24_SameInputSameVerdict == rechecked => checkResult = earlier

\* C22: with a cap configured, no unit of the run holds more files than
\* the cap.
C22_CapRespected ==
    maxFilesPerPR > 0 =>
        \A g \in DOMAIN groups : Len(groups[g].Files) <= maxFilesPerPR

\* The verdicts of the run that are stale, in the order of the run.
StaleVerdicts == SelectSeq(results, LAMBDA res : res.NeedsRecert)

\* C23: once grouped under single_pr, the units are the one unit all-files
\* holding exactly the stale verdicts, or no unit when nothing is stale.
C23_SinglePR ==
    (prStrategy = "single_pr" /\ gpc # "scanned") =>
        IF StaleVerdicts = <<>>
        THEN groups = <<>>
        ELSE /\ Len(groups) = 1
             /\ groups[1].ID = "all-files"
             /\ groups[1].Files = StaleVerdicts

\* The run has stale and non-stale verdicts and the one unit holds the
\* stale ones.
C23_Witness ==
    /\ prStrategy = "single_pr" /\ gpc = "grouped"
    /\ Len(groups) = 1
    /\ Len(groups[1].Files) >= 2
    /\ Len(groups[1].Files) < Len(results)

\* What a policy does for the file when a malformed glob ends the matching
\* of that policy: "match", "none" or "aborted". Globs are tried in order.
PolicyOutcome(p) ==
    LET FirstOf(globs) ==
            IF \E i \in DOMAIN globs : globs[i] # "miss"
            THEN globs[CHOOSE i \in DOMAIN globs :
                           /\ globs[i] # "miss"
                           /\ \A k \in 1..(i - 1) : globs[k] = "miss"]
            ELSE "miss"
    IN  IF ~p.Enabled THEN "none"
        ELSE IF FirstOf(p.Paths) = "bad" THEN "aborted"
        ELSE IF FirstOf(p.Paths) = "miss" THEN "none"
        ELSE IF FirstOf(p.Exclude) = "bad" THEN "aborted"
        ELSE IF FirstOf(p.Exclude) = "hit" THEN "none"
        ELSE "match"

\* C25: the matcher returns no error; it returns the first policy that
\* matches the file, policies given up for a malformed glob being passed
\* over like policies that do not match.
C25_BadGlobEndsItsPolicyOnly ==
    found # NoResult =>
        /\ ~found.err
        /\ \A j \in 1..Len(patterns) :
              (PolicyOutcome(patterns[j]) = "match"
                  /\ \A k \in 1..(j - 1) : PolicyOutcome(patterns[k]) # "match")
                  => found.pattern = j

\* No gateway call of the unit in this run came back with an error.
NoFailedCall(g) == \A i \in 1..Len(calls[g]) : calls[g][i].ret # "err"

SelfCommits == Cardinality({i \in DOMAIN branchLog : branchLog[i] = "self"})

\* C27: on the object-graph backend (GitHub) CreateCommit is all or
\* nothing: it returns success only when every blob, the tree, the commit
\* object and the update of the branch ref succeeded, and as long as it has
\* not returned success (a request failed, or the call is under way) the
\* branch has received nothing from it.
C27_AllOrNothing ==
    cProvider = "github" =>
        /\ cRet = "ok" =>
            /\ blobs = Len(cChanges)
            /\ treeMade
            /\ commitMade
            /\ SelfCommits = 1
            /\ branchLog[refTip + 1] = "self"
        /\ cRet # "ok" => SelfCommits = 0
        /\ cStep = "done" => cRet \in {"ok", "err"}

C27_Witness ==
    /\ cProvider = "github"
    /\ cStep = "done"
    /\ cRet = "err"
    /\ commitMade
    /\ blobs = 2

\* C28: on the push backend (Azure DevOps) a commit is one push carrying
\* the tip read for the branch: when another push moved the branch between
\* the read and the push, the push is refused, CreateCommit returns an
\* error and the branch has no commit of the call.
C28_StalePushRejected ==
    cProvider = "azure" =>
        /\ SelfCommits <= 1
        /\ \A i \in DOMAIN branchLog :
            branchLog[i] = "self" => i = refTip + 1 /\ cRet = "ok"
        /\ (cStep = "done" /\ refTip >= 0 /\ Tip > refTip /\ cRet = "err")
                => SelfCommits = 0

C28_Witness ==
    /\ cProvider = "azure"
    /\ cStep = "done"
    /\ submitted # <<>>
    /\ refTip >= 0
    /\ Tip > refTip
    /\ cRet = "err"

\* C29: on the action-list backend (GitLab) and the push backend (Azure
\* DevOps) a change to a path that exists on the branch is submitted as an
\* update / edit, and create / add is used only for a path that does not
\* exist.
C29_ExistingPathsAreUpdated ==
    \A i \in DOMAIN submitted :
        submitted[i].action =
            IF submitted[i].path \in onBranch
            THEN (IF cProvider = "gitlab" THEN "update" ELSE "edit")
            ELSE (IF cProvider = "gitlab" THEN "create" ELSE "add")

DecoratorLines == Cardinality({i \in DOMAIN content : content[i] = "P"})

\* C30: decorating is idempotent in shape: a file that was recertified
\* before begins, after the next recertification, with exactly one
\* decorator line, the one carrying the new timestamp.
C30_OneDecoratorLine ==
    (decorator # <<>> /\ decorated >= 1) =>
        /\ DecoratorLines = 1
        /\ HasPrefix(content, Render(decorator, stamp))

====
